---------------------------- MODULE Spec2Model ----------------------------
(***************************************************************************)
(* A model of src/app.py, the citation processor: the heuristic parser     *)
(* (parse_endnote_text), the merge of looked-up fields, the renderers      *)
(* (format_citation and its four styles), the endnotes.xml reader and      *)
(* writer (extract_endnotes, update_endnotes_xml), process_document and    *)
(* the /process route.                                                     *)
(*                                                                         *)
(* A Python str is a sequence of one-character strings.  An optional       *)
(* value is a tagged record: None, Str(s) or IntVal(n).                    *)
(***************************************************************************)
EXTENDS Integers, Sequences, FiniteSets, TLC

VARIABLES
  text, parsed,               \* parse_endnote_text: its argument, its result
  fields, style, rendered,    \* format_citation: its arguments, its result
  mparsed, mlookup, merged,   \* the merge: parsed fields, lookup result, result
  \* update_endnotes_xml then extract_endnotes on one file:
  endnotes_xml,               \* the content of the file at endnotes_path
  formatted_arg,              \* the mapping given to update_endnotes_xml
  before, after,              \* what extract_endnotes returned before and after
  dpc,                        \* "start", "extracted", "updated", "done"
  \* one call of process_document:
  input_docx,                 \* the file at input_path
  citation_style,
  pc,                         \* "unpack", "extract", "loop", "pack", "done"
  temp_dir,                   \* the unpacked tree, NotRun before, Removed after
  endnotes, idx,              \* the extracted dict and the loop's position in it
  formatted_endnotes, processing_log,
  lookups,                    \* history: how the lookup of each note ended
  result,                     \* the dict the call returns
  output_file,                \* the file at output_path
  \* two requests to the /process route:
  files,                      \* UPLOAD_FOLDER: file name -> content, or NoFile
  uploads,                    \* per request: the form (filename, file, style)
  rpc,                        \* per request: the step the handler is at
  unpacked,                   \* per request: what unpack_docx read into temp_dir
  doc_result,                 \* per request: what process_document returned
  responses                   \* per request: the response sent

parseVars == <<text, parsed>>
renderVars == <<fields, style, rendered>>
mergeVars == <<mparsed, mlookup, merged>>
docVars == <<endnotes_xml, formatted_arg, before, after, dpc>>
procVars == <<input_docx, citation_style, pc, temp_dir, endnotes, idx,
              formatted_endnotes, processing_log, lookups, result, output_file>>
routeVars == <<files, uploads, rpc, unpacked, doc_result, responses>>
vars == <<parseVars, renderVars, mergeVars, docVars, procVars, routeVars>>

\* What each component leaves alone.
notParse == <<renderVars, mergeVars, docVars, procVars, routeVars>>
notRender == <<parseVars, mergeVars, docVars, procVars, routeVars>>
notMerge == <<parseVars, renderVars, docVars, procVars, routeVars>>
notDoc == <<parseVars, renderVars, mergeVars, procVars, routeVars>>
notProc == <<parseVars, renderVars, mergeVars, docVars, routeVars>>
notRoute == <<parseVars, renderVars, mergeVars, docVars, procVars>>

(***************************************************************************)
(* Bounds of the model.                                                    *)
(***************************************************************************)
MaxTextLen == 4
MaxNotes == 2

(***************************************************************************)
(* Python values.                                                          *)
(***************************************************************************)
None == [tag |-> "None"]
Str(s) == [tag |-> "str", s |-> s]
IntVal(n) == [tag |-> "int", n |-> n]

\* Python truthiness of an optional value: `if value`.
Truthy(v) ==
  \/ v.tag = "str" /\ v.s # <<>>
  \/ v.tag = "int" /\ v.n # 0

Min(S) == CHOOSE m \in S : \A k \in S : m <= k

(***************************************************************************)
(* Character classes of the re module and of str, on the ASCII characters  *)
(* the model uses.  The four curly quotes of line 264 are written by their *)
(* code points.                                                            *)
(***************************************************************************)
DigitChars == {"0", "1", "2", "3", "4", "5", "6", "7", "8", "9"}
UpperChars == {"A", "B", "C", "D", "E", "F", "G", "H", "I", "J", "K", "L", "M",
               "N", "O", "P", "Q", "R", "S", "T", "U", "V", "W", "X", "Y", "Z"}
LowerChars == {"a", "b", "c", "d", "e", "f", "g", "h", "i", "j", "k", "l", "m",
               "n", "o", "p", "q", "r", "s", "t", "u", "v", "w", "x", "y", "z"}
SpaceChars == {" ", "\t", "\n", "\r"}
QuoteChars == {"\"", "'", "u201C", "u201D", "u2018", "u2019"}

IsSpace(c) == c \in SpaceChars
IsDigit(c) == c \in DigitChars
IsUpper(c) == c \in UpperChars
\* \w of the re module
IsWord(c) == c \in DigitChars \cup UpperChars \cup LowerChars \cup {"_"}

\* s[from..] (1-based), str slicing s[from-1:]
Drop(s, from) == SubSeq(s, from, Len(s))

\* The index of the first character at or after `from` that is not in
\* class C; Len(s) + 1 when there is none.
SkipClass(s, from, C) ==
  Min({i \in from..(Len(s) + 1) : i = Len(s) + 1 \/ s[i] \notin C})

\* str.strip()
strip(s) ==
  LET a == SkipClass(s, 1, SpaceChars)
      ends == {j \in 0..Len(s) : j = 0 \/ s[j] \notin SpaceChars}
      b == CHOOSE j \in ends : \A k \in ends : k <= j
  IN  IF a > Len(s) THEN <<>> ELSE SubSeq(s, a, b)

\* \b of the re module at the gap before character i (i in 1..Len(s)+1)
WordBoundary(s, i) ==
  LET left == i > 1 /\ IsWord(s[i - 1])
      right == i <= Len(s) /\ IsWord(s[i])
  IN  left # right

\* str.split(sep) for a one-character separator
RECURSIVE split(_, _)
split(s, sep) ==
  LET hits == {i \in 1..Len(s) : s[i] = sep}
  IN  IF hits = {} THEN <<s>>
      ELSE LET i == Min(hits)
           IN  <<SubSeq(s, 1, i - 1)>> \o split(Drop(s, i + 1), sep)

\* sub in s
OccursAt(s, sub, i) == i + Len(sub) - 1 <= Len(s) /\ SubSeq(s, i, i + Len(sub) - 1) = sub
Occurs(s, sub) == sub = <<>> \/ \E i \in 1..Len(s) : OccursAt(s, sub, i)
\* The text after the first occurrence of sub (sub occurs in s).
After(s, sub) == Drop(s, Min({i \in 1..Len(s) : OccursAt(s, sub, i)}) + Len(sub))
\* The text before the first occurrence of sub (sub occurs in s).
Before(s, sub) == SubSeq(s, 1, Min({i \in 1..Len(s) : OccursAt(s, sub, i)}) - 1)

(***************************************************************************)
(* parse_endnote_text, src/app.py lines 229-268.                           *)
(***************************************************************************)
\* A plausible slip: the label pattern also swallows the period of "1.".
re_sub_label_dot(s) ==
  LET d == SkipClass(s, 1, SpaceChars)
      e == SkipClass(s, d, DigitChars)
      f == IF e <= Len(s) /\ s[e] = "." THEN e + 1 ELSE e
  IN  IF e = d THEN s ELSE Drop(s, SkipClass(s, f, SpaceChars))

\* re.sub(r'^\s*\d+\s*', '', text): line 232, before .strip()
re_sub_label(s) ==
  LET d == SkipClass(s, 1, SpaceChars)
      e == SkipClass(s, d, DigitChars)
  IN  IF e = d THEN s ELSE Drop(s, SkipClass(s, e, SpaceChars))

\* re.search(r'\b(19|20)\d{2}\b', text): the first match, or None
year_match(s) ==
  LET hits == {i \in 1..(Len(s) - 3) :
                 /\ WordBoundary(s, i)
                 /\ <<s[i], s[i + 1]>> \in {<<"1", "9">>, <<"2", "0">>}
                 /\ IsDigit(s[i + 2]) /\ IsDigit(s[i + 3])
                 /\ WordBoundary(s, i + 4)}
  IN  IF hits = {} THEN None ELSE Str(SubSeq(s, Min(hits), Min(hits) + 3))

\* The end (exclusive) of group 1 of the page pattern started at i: the
\* longest run of digits, then "-" and digits when they follow.
PageGroupEnd(s, i) ==
  LET e == SkipClass(s, i, DigitChars)
      e2 == SkipClass(s, e + 1, DigitChars)
  IN  IF e <= Len(s) /\ s[e] = "-" /\ e2 > e + 1 THEN e2 ELSE e

\* \s*\.?\s*$ from position j
PageTail(s, j) ==
  LET a == SkipClass(s, j, SpaceChars)
      b == IF a <= Len(s) /\ s[a] = "." THEN a + 1 ELSE a
  IN  SkipClass(s, b, SpaceChars) = Len(s) + 1

\* re.search(r'\b(\d+(?:-\d+)?)\s*\.?\s*$', text): group 1 of the leftmost
\* match, or None
page_match(s) ==
  LET hits == {i \in 1..Len(s) :
                 /\ IsDigit(s[i])
                 /\ WordBoundary(s, i)
                 /\ PageTail(s, PageGroupEnd(s, i))}
  IN  IF hits = {} THEN None
      ELSE Str(SubSeq(s, Min(hits), PageGroupEnd(s, Min(hits)) - 1))

\* re.sub(r'^[quotes]+|[quotes]+$', '', s), line 264
strip_quotes(s) ==
  LET a == SkipClass(s, 1, QuoteChars)
      ends == {j \in 0..Len(s) : j = 0 \/ s[j] \notin QuoteChars}
      b == CHOOSE j \in ends : \A k \in ends : k <= j
  IN  IF a > Len(s) THEN <<>> ELSE SubSeq(s, a, b)

\* lines 255-259: parts[0].strip() when it starts with an upper-case letter
parse_author(parts) ==
  LET potential_author == strip(parts[1])
  IN  IF Len(parts) >= 2 /\ potential_author # <<>> /\ IsUpper(potential_author[1])
      THEN Str(potential_author) ELSE None

\* lines 261-266: parts[1], stripped of blanks and then of quote marks
parse_title(parts) ==
  IF Len(parts) >= 2 /\ strip_quotes(strip(parts[2])) # <<>>
  THEN Str(strip_quotes(strip(parts[2]))) ELSE None

\* Line 232 rebinds the parameter `text`; line 241 stores that rebound value.
parse_endnote_text(t) ==
  LET work == strip(re_sub_label(t))
      parts == split(work, ",")
  IN  [author |-> parse_author(parts),
       title |-> parse_title(parts),
       publisher |-> None,
       place |-> None,
       year |-> year_match(work),
       page |-> page_match(work),
       original_text |-> work]

(***************************************************************************)
(* The renderers, src/app.py lines 62-188.  A renderer returns Str(text)   *)
(* or Raise(exception).                                                    *)
(***************************************************************************)
Raise(e) == [tag |-> "raise", exc |-> e]
Exceptions == {"IndexError", "AttributeError", "BadZipFile", "ExpatError", "OSError",
               "timeout", "connection_error", "malformed"}
IsRaise(v) == v \in {Raise(e) : e \in Exceptions}

DigitSeq == <<"0", "1", "2", "3", "4", "5", "6", "7", "8", "9">>

\* str(n) for n >= 0
RECURSIVE IntToStr(_)
IntToStr(n) ==
  IF n < 10 THEN <<DigitSeq[n + 1]>>
  ELSE IntToStr(n \div 10) \o <<DigitSeq[(n % 10) + 1]>>

\* citation_data.get(key, '') or '', as it is later put in an f-string
GetText(v) ==
  IF ~Truthy(v) THEN <<>>
  ELSE IF v.tag = "str" THEN v.s ELSE IntToStr(v.n)

UpperSeq == <<"A", "B", "C", "D", "E", "F", "G", "H", "I", "J", "K", "L", "M",
              "N", "O", "P", "Q", "R", "S", "T", "U", "V", "W", "X", "Y", "Z">>
LowerSeq == <<"a", "b", "c", "d", "e", "f", "g", "h", "i", "j", "k", "l", "m",
              "n", "o", "p", "q", "r", "s", "t", "u", "v", "w", "x", "y", "z">>

\* str.upper()
upper(s) ==
  [i \in 1..Len(s) |->
     IF s[i] \in LowerChars
     THEN UpperSeq[CHOOSE k \in 1..26 : LowerSeq[k] = s[i]]
     ELSE s[i]]

\* str.lower()
lower(s) ==
  [i \in 1..Len(s) |->
     IF s[i] \in UpperChars
     THEN LowerSeq[CHOOSE k \in 1..26 : UpperSeq[k] = s[i]]
     ELSE s[i]]

\* sep.join(parts)
RECURSIVE join(_, _)
join(parts, sep) ==
  IF parts = <<>> THEN <<>>
  ELSE IF Len(parts) = 1 THEN parts[1]
  ELSE parts[1] \o sep \o join(Tail(parts), sep)

EmOpen == <<"<", "e", "m", ">">>
EmClose == <<"<", "/", "e", "m", ">">>

\* lines 73-85: the parenthetical group
chicago_group(place, publisher, year) ==
  IF place # <<>> \/ publisher # <<>> \/ year # <<>>
  THEN <<" ", "(">>
       \o (IF place # <<>>
           THEN place \o (IF publisher # <<>> \/ year # <<>> THEN <<":", " ">> ELSE <<>>)
           ELSE <<>>)
       \o (IF publisher # <<>>
           THEN publisher \o (IF year # <<>> THEN <<",", " ">> ELSE <<>>)
           ELSE <<>>)
       \o year
       \o <<")">>
  ELSE <<>>

format_chicago(cd) ==
  LET author == GetText(cd.author)
      title == GetText(cd.title)
      page == GetText(cd.page)
  IN  Str(author \o <<",", " ">> \o EmOpen \o title \o EmClose
          \o chicago_group(GetText(cd.place), GetText(cd.publisher), GetText(cd.year))
          \o (IF page # <<>> THEN <<",", " ">> \o page ELSE <<>>)
          \o <<".">>)

\* lines 102-105: "Last, First Middle" when the name has two tokens or more
mla_author(author) ==
  LET author_parts == split(author, " ")
      n == Len(author_parts)
  IN  IF author # <<>> /\ n >= 2
      THEN author_parts[n] \o <<",", " ">> \o join(SubSeq(author_parts, 1, n - 1), <<" ">>)
      ELSE author

format_mla(cd) ==
  LET publisher == GetText(cd.publisher)
      year == GetText(cd.year)
      page == GetText(cd.page)
  IN  Str(mla_author(GetText(cd.author)) \o <<".", " ">> \o EmOpen
          \o GetText(cd.title) \o EmClose
          \o (IF publisher # <<>> THEN <<".", " ">> \o publisher ELSE <<>>)
          \o (IF year # <<>> THEN <<",", " ">> \o year ELSE <<>>)
          \o (IF page # <<>> THEN <<",", " ", "p", "p", ".", " ">> \o page ELSE <<>>)
          \o <<".">>)

\* lines 128-132: "Last, F. M."; p[0] of an empty token raises IndexError
apa_raises(author) ==
  LET author_parts == split(author, " ")
      n == Len(author_parts)
  IN  author # <<>> /\ n >= 2 /\ \E i \in 1..(n - 1) : author_parts[i] = <<>>

apa_author(author) ==
  LET author_parts == split(author, " ")
      n == Len(author_parts)
  IN  IF author # <<>> /\ n >= 2
      THEN author_parts[n] \o <<",", " ">>
           \o join([i \in 1..(n - 1) |-> <<author_parts[i][1]>>], <<".", " ">>)
           \o <<".">>
      ELSE author

format_apa(cd) ==
  LET author == GetText(cd.author)
      place == GetText(cd.place)
      publisher == GetText(cd.publisher)
      year == GetText(cd.year)
      page == GetText(cd.page)
  IN  IF apa_raises(author) THEN Raise("IndexError")
      ELSE Str(apa_author(author)
               \o (IF year # <<>> THEN <<" ", "(">> \o year \o <<")", ".">> ELSE <<>>)
               \o <<" ">> \o EmOpen \o GetText(cd.title) \o EmClose
               \o (IF place # <<>> /\ publisher # <<>>
                   THEN <<".", " ">> \o place \o <<":", " ">> \o publisher
                   ELSE IF publisher # <<>> THEN <<".", " ">> \o publisher
                   ELSE <<>>)
               \o (IF page # <<>> THEN <<",", " ", "p", "p", ".", " ">> \o page ELSE <<>>)
               \o <<".">>)

format_bluebook(cd) ==
  LET author == GetText(cd.author)
      title == GetText(cd.title)
      publisher == GetText(cd.publisher)
      year == GetText(cd.year)
      page == GetText(cd.page)
  IN  Str((IF author # <<>> THEN author \o <<",", " ">> ELSE <<>>)
          \o (IF title # <<>> THEN upper(title)
              ELSE <<"U", "N", "T", "I", "T", "L", "E", "D">>)
          \o (IF page # <<>> THEN <<" ">> \o page ELSE <<>>)
          \o (IF publisher # <<>> \/ year # <<>>
              THEN <<" ", "(">> \o publisher
                   \o (IF publisher # <<>> /\ year # <<>> THEN <<" ">> ELSE <<>>)
                   \o year \o <<")">>
              ELSE <<>>)
          \o <<".">>)

format_citation(cd, st) ==
  CASE st = "chicago" -> format_chicago(cd)
    [] st = "mla" -> format_mla(cd)
    [] st = "apa" -> format_apa(cd)
    [] st = "bluebook" -> format_bluebook(cd)
    [] OTHER -> format_chicago(cd)

(***************************************************************************)
(* lookup_citation and the place table, src/app.py lines 30-60, 192-227.   *)
(* The answer of Open Library is the environment's: a failure of one of    *)
(* LookupFailures, or an OK response whose first candidate is `doc`.  A    *)
(* key the candidate lacks is Missing; a list is List(items).              *)
(***************************************************************************)
PUBLISHER_PLACE_MAP ==
  <<
    <<<<"H", "a", "r", "v", "a", "r", "d", " ", "U", "n", "i", "v", "e", "r", "s", "i", "t", "y", " ", "P", "r", "e", "s", "s">>,
      <<"C", "a", "m", "b", "r", "i", "d", "g", "e">>>>,
    <<<<"M", "I", "T", " ", "P", "r", "e", "s", "s">>,
      <<"C", "a", "m", "b", "r", "i", "d", "g", "e">>>>,
    <<<<"Y", "a", "l", "e", " ", "U", "n", "i", "v", "e", "r", "s", "i", "t", "y", " ", "P", "r", "e", "s", "s">>,
      <<"N", "e", "w", " ", "H", "a", "v", "e", "n">>>>,
    <<<<"P", "r", "i", "n", "c", "e", "t", "o", "n", " ", "U", "n", "i", "v", "e", "r", "s", "i", "t", "y", " ", "P", "r", "e", "s", "s">>,
      <<"P", "r", "i", "n", "c", "e", "t", "o", "n">>>>,
    <<<<"S", "t", "a", "n", "f", "o", "r", "d", " ", "U", "n", "i", "v", "e", "r", "s", "i", "t", "y", " ", "P", "r", "e", "s", "s">>,
      <<"S", "t", "a", "n", "f", "o", "r", "d">>>>,
    <<<<"U", "n", "i", "v", "e", "r", "s", "i", "t", "y", " ", "o", "f", " ", "C", "a", "l", "i", "f", "o", "r", "n", "i", "a", " ", "P", "r", "e", "s", "s">>,
      <<"B", "e", "r", "k", "e", "l", "e", "y">>>>,
    <<<<"U", "n", "i", "v", "e", "r", "s", "i", "t", "y", " ", "o", "f", " ", "C", "h", "i", "c", "a", "g", "o", " ", "P", "r", "e", "s", "s">>,
      <<"C", "h", "i", "c", "a", "g", "o">>>>,
    <<<<"C", "o", "l", "u", "m", "b", "i", "a", " ", "U", "n", "i", "v", "e", "r", "s", "i", "t", "y", " ", "P", "r", "e", "s", "s">>,
      <<"N", "e", "w", " ", "Y", "o", "r", "k">>>>,
    <<<<"C", "o", "r", "n", "e", "l", "l", " ", "U", "n", "i", "v", "e", "r", "s", "i", "t", "y", " ", "P", "r", "e", "s", "s">>,
      <<"I", "t", "h", "a", "c", "a">>>>,
    <<<<"D", "u", "k", "e", " ", "U", "n", "i", "v", "e", "r", "s", "i", "t", "y", " ", "P", "r", "e", "s", "s">>,
      <<"D", "u", "r", "h", "a", "m">>>>,
    <<<<"J", "o", "h", "n", "s", " ", "H", "o", "p", "k", "i", "n", "s", " ", "U", "n", "i", "v", "e", "r", "s", "i", "t", "y", " ", "P", "r", "e", "s", "s">>,
      <<"B", "a", "l", "t", "i", "m", "o", "r", "e">>>>,
    <<<<"O", "x", "f", "o", "r", "d", " ", "U", "n", "i", "v", "e", "r", "s", "i", "t", "y", " ", "P", "r", "e", "s", "s">>,
      <<"O", "x", "f", "o", "r", "d">>>>,
    <<<<"C", "a", "m", "b", "r", "i", "d", "g", "e", " ", "U", "n", "i", "v", "e", "r", "s", "i", "t", "y", " ", "P", "r", "e", "s", "s">>,
      <<"C", "a", "m", "b", "r", "i", "d", "g", "e">>>>,
    <<<<"P", "e", "n", "g", "u", "i", "n">>,
      <<"N", "e", "w", " ", "Y", "o", "r", "k">>>>,
    <<<<"R", "a", "n", "d", "o", "m", " ", "H", "o", "u", "s", "e">>,
      <<"N", "e", "w", " ", "Y", "o", "r", "k">>>>,
    <<<<"H", "a", "r", "p", "e", "r", "C", "o", "l", "l", "i", "n", "s">>,
      <<"N", "e", "w", " ", "Y", "o", "r", "k">>>>,
    <<<<"S", "i", "m", "o", "n", " ", "&", " ", "S", "c", "h", "u", "s", "t", "e", "r">>,
      <<"N", "e", "w", " ", "Y", "o", "r", "k">>>>
  >>

\* pub.lower() of every key of the table
LowerPublishers ==
  [i \in 1..Len(PUBLISHER_PLACE_MAP) |-> lower(PUBLISHER_PLACE_MAP[i][1])]

\* lines 57-60: the first entry, in insertion order, that contains the
\* publisher or is contained in it, ignoring case; '' when there is none
infer_place_from_publisher(publisher) ==
  LET hits == {i \in 1..Len(PUBLISHER_PLACE_MAP) :
                 \/ Occurs(lower(publisher), LowerPublishers[i])
                 \/ Occurs(LowerPublishers[i], lower(publisher))}
  IN  IF publisher = <<>> \/ hits = {} THEN <<>>
      ELSE PUBLISHER_PLACE_MAP[Min(hits)][2]

Missing == [tag |-> "Missing"]
List(items) == [tag |-> "list", items |-> items]

\* doc.get(key, [None])[0] if doc.get(key) else default
FirstOf(v, default) ==
  IF v # Missing /\ v.items # <<>> THEN v.items[1] ELSE default

LookupFailures == {"timeout", "connection_error", "not_ok", "malformed", "no_docs"}

\* lines 211-223: the candidate mapped to citation fields
citation_from_doc(doc, author, title) ==
  LET publisher == FirstOf(doc.publisher, None)
      place == FirstOf(doc.publish_place, None)
  IN  [author |-> FirstOf(doc.author_name, author),
       title |-> IF doc.title = Missing THEN title ELSE doc.title,
       publisher |-> publisher,
       place |-> IF ~Truthy(place) /\ Truthy(publisher)
                 THEN Str(infer_place_from_publisher(publisher.s))
                 ELSE place,
       year |-> IF doc.first_publish_year = Missing THEN None
                ELSE doc.first_publish_year]

\* A plausible slip: no try/except around the request, so that a timeout or
\* a transport error leaves lookup_citation as an exception.
lookup_citation_unguarded(author, title, response) ==
  IF ~(Truthy(author) \/ Truthy(title)) THEN None
  ELSE IF response.kind \in {"timeout", "connection_error", "malformed"}
       THEN Raise(response.kind)
  ELSE IF response.kind \in LookupFailures THEN None
  ELSE citation_from_doc(response.doc, author, title)

\* lines 192-227.  Every exception of the request or of the decoding is
\* caught at line 224; a response that is not OK or has no candidate falls
\* through to the last line.
lookup_citation(author, title, response) ==
  IF ~(Truthy(author) \/ Truthy(title)) THEN None
  ELSE IF response.kind \in LookupFailures THEN None
  ELSE citation_from_doc(response.doc, author, title)

(***************************************************************************)
(* The merge of process_document, src/app.py lines 363-367.                *)
(***************************************************************************)
\* A plausible slip: `if value:` without `and not parsed.get(key)`.
merge_lookup_overwriting(p, lookup_result) ==
  IF lookup_result = None THEN p
  ELSE [key \in DOMAIN p |->
          IF key \in DOMAIN lookup_result /\ Truthy(lookup_result[key])
          THEN lookup_result[key] ELSE p[key]]

\* `if lookup_result:` and the loop over lookup_result.items(); every key of
\* a lookup result is a key of the parsed fields.
merge_lookup(p, lookup_result) ==
  IF lookup_result = None THEN p
  ELSE [key \in DOMAIN p |->
          IF key \in DOMAIN lookup_result /\ Truthy(lookup_result[key])
             /\ ~Truthy(p[key])
          THEN lookup_result[key] ELSE p[key]]

\* lines 361-367: the lookup, made only with an author or a title, and the
\* merge of what it returned
enrich(p, response) ==
  IF Truthy(p.author) \/ Truthy(p.title)
  THEN LET lookup_result == lookup_citation(p.author, p.title, response)
       IN  IF IsRaise(lookup_result) THEN lookup_result
           ELSE merge_lookup(p, lookup_result)
  ELSE p

(***************************************************************************)
(* word/endnotes.xml, src/app.py lines 286-334.  The file is the sequence  *)
(* of its w:endnote elements, each [id, runs]: the w:id attribute ("" when *)
(* it is absent) and the text of each w:t element below it, in document    *)
(* order.  A w:t with no text node has the text <<>>: minidom gives the    *)
(* element no firstChild, and an emptied text node is written as <w:t/>    *)
(* or <w:t></w:t>, which parses to the same.                               *)
(*                                                                         *)
(* A dict is the sequence of its <<key, value>> items in insertion order.  *)
(***************************************************************************)
DictKeys(d) == {d[i][1] : i \in 1..Len(d)}
DictGet(d, k) == d[CHOOSE i \in 1..Len(d) : d[i][1] = k][2]

\* A plausible slip: a list of pairs in place of the dict, so that a key
\* written twice is held twice.
DictAppend(d, k, v) == Append(d, <<k, v>>)

\* d[k] = v
DictPut(d, k, v) ==
  IF k \in DictKeys(d)
  THEN [i \in 1..Len(d) |-> IF d[i][1] = k THEN <<k, v>> ELSE d[i]]
  ELSE Append(d, <<k, v>>)

ReservedIds == {"-1", "0"}

\* ''.join(text_elements), lines 297-301
RECURSIVE full_text(_)
full_text(runs) ==
  IF runs = <<>> THEN <<>> ELSE runs[1] \o full_text(Tail(runs))

\* A plausible slip: `if endnote_id:` without the reserved ids.
RECURSIVE extract_unfiltered(_)
extract_unfiltered(doc) ==
  IF doc = <<>> THEN <<>>
  ELSE LET n == Len(doc)
           acc == extract_unfiltered(SubSeq(doc, 1, n - 1))
       IN  IF doc[n].id # ""
           THEN DictPut(acc, doc[n].id, full_text(doc[n].runs))
           ELSE acc

\* extract_endnotes, lines 292-304: the elements in document order
RECURSIVE extract_endnotes(_)
extract_endnotes(doc) ==
  IF doc = <<>> THEN <<>>
  ELSE LET n == Len(doc)
           acc == extract_endnotes(SubSeq(doc, 1, n - 1))
       IN  IF doc[n].id # "" /\ doc[n].id \notin ReservedIds
           THEN DictPut(acc, doc[n].id, full_text(doc[n].runs))
           ELSE acc

\* re.sub(r'<em>|</em>', '', formatted_text), line 329
RECURSIVE strip_em(_)
strip_em(s) ==
  IF s = <<>> THEN <<>>
  ELSE IF OccursAt(s, EmOpen, 1) THEN strip_em(Drop(s, Len(EmOpen) + 1))
  ELSE IF OccursAt(s, EmClose, 1) THEN strip_em(Drop(s, Len(EmClose) + 1))
  ELSE <<s[1]>> \o strip_em(Tail(s))

\* lines 316-330 on one element: every text node emptied, then the text
\* written into the text node of the first w:t.  An element with no w:t is
\* left as it is (line 324).
update_endnote(endnote, mapping) ==
  IF endnote.id \in DictKeys(mapping) /\ endnote.runs # <<>>
  THEN [endnote EXCEPT !.runs =
          [i \in 1..Len(endnote.runs) |->
             IF i = 1 THEN strip_em(DictGet(mapping, endnote.id))
             ELSE <<>>]]
  ELSE endnote

\* line 330 on a first w:t that has no text node: t_elem.firstChild is None
update_raises(doc, mapping) ==
  \E i \in 1..Len(doc) :
    /\ doc[i].id \in DictKeys(mapping)
    /\ doc[i].runs # <<>>
    /\ doc[i].runs[1] = <<>>

\* A well-formed endnotes.xml, as a file
XmlFile(doc) == [kind |-> "xml", notes |-> doc]

\* update_endnotes_xml, lines 306-334: the new content of the file, or the
\* exception that leaves the loop before line 333 writes anything
update_endnotes_xml(doc, mapping) ==
  IF update_raises(doc, mapping) THEN Raise("AttributeError")
  ELSE XmlFile([i \in 1..Len(doc) |-> update_endnote(doc[i], mapping)])

(***************************************************************************)
(* The parser on its own: every text over ParseAlphabet of at most         *)
(* MaxTextLen characters, and the longer texts of ScenarioTexts.           *)
(***************************************************************************)
NotRun == [tag |-> "NotRun"]

ParseAlphabet == {"1", "9", " ", ".", ",", "-", "S", "a", "\""}

SmithScenario ==
  <<"1","."," ","S","m","i","t","h",","," ","J","o","h","n",","," ","A"," ",
    "S","t","u","d","y"," ","o","f"," ","T","h","i","n","g","s",","," ","A",
    "c","m","e"," ","P","r","e","s","s",","," ","1","9","9","9",","," ","4",
    "2",".">>

DoeScenario ==
  <<"1","2"," ","D","o","e",","," ","'","A","r","t","'",","," ","2","0","0",
    "4",","," ","1","0","-","1","2">>

ScenarioTexts == {SmithScenario, DoeScenario}

TextsUpTo(n) == UNION {[1..k -> ParseAlphabet] : k \in 0..n}

StartParse ==
  /\ text \in TextsUpTo(MaxTextLen) \cup ScenarioTexts
  /\ parsed = NotRun

IdleParse == text = <<>> /\ parsed = NotRun

Parse ==
  /\ parsed = NotRun
  /\ parsed' = parse_endnote_text(text)
  /\ UNCHANGED <<text, notParse>>

(***************************************************************************)
(* The renderers on their own: every combination of absent (None), empty   *)
(* and present fields, under every style selector and an unknown one.      *)
(***************************************************************************)
Styles == {"chicago", "mla", "apa", "bluebook", "harvard"}

AuthorValues == {None, Str(<<>>), Str(<<"L", "e", "e">>),
                 Str(<<"A", "n", "n", " ", "L", "e", "e">>),
                 Str(<<"A", "n", "n", " ", " ", "L", "e", "e">>)}
TitleValues == {None, Str(<<>>), Str(<<"T", "a", "l", "e", "s">>)}
PlaceValues == {None, Str(<<>>), Str(<<"O", "s", "l", "o">>)}
PublisherValues == {None, Str(<<>>), Str(<<"A", "c", "m", "e">>)}
YearValues == {None, Str(<<>>), Str(<<"1", "9", "9", "9">>), IntVal(2004)}
PageValues == {None, Str(<<>>), Str(<<"4", "2">>)}

StartRender ==
  /\ fields \in [author : AuthorValues, title : TitleValues, place : PlaceValues,
                 publisher : PublisherValues, year : YearValues, page : PageValues]
  /\ style \in Styles
  /\ rendered = NotRun

IdleRender == fields = NotRun /\ style = "chicago" /\ rendered = NotRun

Render ==
  /\ rendered = NotRun
  /\ fields # NotRun
  /\ rendered' = format_citation(fields, style)
  /\ UNCHANGED <<fields, style, notRender>>

(***************************************************************************)
(* The merge on its own: every parsed record whose fields are absent or    *)
(* present (the parser never stores an empty string), against no lookup    *)
(* result and every lookup result whose values are None, empty or present. *)
(***************************************************************************)
OptText(s) == {None, Str(s)}
LookupText(s) == {None, Str(<<>>), Str(s)}

ParsedRecords ==
  [author : OptText(<<"L", "e", "e">>), title : OptText(<<"T", "a", "l", "e", "s">>),
   publisher : OptText(<<"A", "c", "m", "e">>), place : OptText(<<"O", "s", "l", "o">>),
   year : OptText(<<"1", "9", "9", "9">>), page : OptText(<<"4", "2">>),
   original_text : {<<"L", "e", "e">>}]

LookupResults ==
  [author : LookupText(<<"A", "n", "n", " ", "L", "e", "e">>),
   title : LookupText(<<"S", "a", "g", "a", "s">>),
   publisher : LookupText(<<"M", "I", "T", " ", "P", "r", "e", "s", "s">>),
   place : LookupText(<<"C", "a", "m", "b", "r", "i", "d", "g", "e">>),
   year : {None, IntVal(2004)}]

StartMerge ==
  /\ mparsed \in ParsedRecords
  /\ mlookup \in LookupResults \cup {None}
  /\ merged = NotRun

IdleMerge == mparsed = NotRun /\ mlookup = None /\ merged = NotRun

Merge ==
  /\ merged = NotRun
  /\ mparsed # NotRun
  /\ merged' = merge_lookup(mparsed, mlookup)
  /\ UNCHANGED <<mparsed, mlookup, notMerge>>

(***************************************************************************)
(* The documents of the model: every sequence of at most MaxNotes          *)
(* elements over NoteIds and RunShapes, and WordDocument, which is laid    *)
(* out as Word writes the file: the two separator notes, then three notes. *)
(***************************************************************************)
NoteIds == {"-1", "0", "1", "2"}

LeeTales == <<"L", "e", "e", ",", " ", "T", "a", "l", "e", "s">>
AnnSagas == <<"A", "n", "n", " ", "L", "e", "e", ",", " ", "S", "a", "g", "a", "s", ",", " ", "7">>
Ibid == <<"i", "b", "i", "d", ".">>

RunShapes ==
  { <<>>,                                          \* no w:t at all
    << <<>>, Ibid >>,                              \* a first w:t without text
    << SubSeq(LeeTales, 1, 5), Drop(LeeTales, 6) >>,   \* two text runs
    << Ibid >> }

WordDocument ==
  << [id |-> "-1", runs |-> << <<" ">> >>],
     [id |-> "0", runs |-> << <<" ">> >>],
     [id |-> "1", runs |-> << LeeTales >>],
     [id |-> "2", runs |-> << DoeScenario >>],
     [id |-> "3", runs |-> << SubSeq(AnnSagas, 1, 9), Drop(AnnSagas, 10) >>] >>

DocsUpTo(n) == UNION {[1..k -> [id : NoteIds, runs : RunShapes]] : k \in 0..n}
Docs == DocsUpTo(MaxNotes) \cup {WordDocument}

(***************************************************************************)
(* update_endnotes_xml and extract_endnotes on their own: every document   *)
(* against every mapping of some of MapIds to FormattedTexts.              *)
(***************************************************************************)
MapIds == <<"0", "1", "2">>
FormattedTexts ==
  { <<"N", "e", "w", ".">>,
    <<"L", "e", "e", ",", " ">> \o EmOpen \o <<"T", "a", "l", "e", "s">> \o EmClose \o <<".">> }

\* The dict that holds MapIds[i] with the value choice[i], where there is one
RECURSIVE DictOf(_)
DictOf(choice) ==
  IF choice = <<>> THEN <<>>
  ELSE LET n == Len(choice)
           d == DictOf(SubSeq(choice, 1, n - 1))
       IN  IF choice[n] = None THEN d ELSE Append(d, <<MapIds[n], choice[n].s>>)

Mappings ==
  {DictOf(c) : c \in [1..Len(MapIds) -> {None} \cup {Str(t) : t \in FormattedTexts}]}

StartDoc ==
  /\ endnotes_xml \in Docs
  /\ formatted_arg \in Mappings
  /\ before = NotRun
  /\ after = NotRun
  /\ dpc = "start"

IdleDoc ==
  /\ endnotes_xml = <<>>
  /\ formatted_arg = <<>>
  /\ before = NotRun
  /\ after = NotRun
  /\ dpc = "idle"

ExtractBefore ==
  /\ dpc = "start"
  /\ before' = extract_endnotes(endnotes_xml)
  /\ dpc' = "extracted"
  /\ UNCHANGED <<endnotes_xml, formatted_arg, after, notDoc>>

\* update_endnotes_xml: the file rewritten, or left as it was by the exception
Update ==
  /\ dpc = "extracted"
  /\ LET new == update_endnotes_xml(endnotes_xml, formatted_arg)
     IN  endnotes_xml' = IF IsRaise(new) THEN endnotes_xml ELSE new.notes
  /\ dpc' = "updated"
  /\ UNCHANGED <<formatted_arg, before, after, notDoc>>

ExtractAfter ==
  /\ dpc = "updated"
  /\ after' = extract_endnotes(endnotes_xml)
  /\ dpc' = "done"
  /\ UNCHANGED <<endnotes_xml, formatted_arg, before, notDoc>>

(***************************************************************************)
(* process_document, src/app.py lines 336-397, on every document, with     *)
(* the faults of its environment: a file that is no zip archive, a missing *)
(* or malformed word/endnotes.xml, the answer to each lookup, and a        *)
(* pack_docx that fails before or after the output file is created.        *)
(***************************************************************************)
PreviewLen == 100

Removed == [tag |-> "Removed"]
AbsentFile == [kind |-> "absent"]
MalformedFile == [kind |-> "malformed"]

InputFiles ==
  {[kind |-> "not_a_zip"]}
    \cup {[kind |-> "docx", endnotes_xml |-> f] :
            f \in {AbsentFile, MalformedFile} \cup {XmlFile(d) : d \in Docs}}

FullCandidate ==
  [author_name |-> List(<<Str(<<"A", "n", "n", " ", "L", "e", "e">>)>>),
   title |-> Str(<<"S", "a", "g", "a", "s">>),
   publisher |-> List(<<Str(<<"M", "I", "T", " ", "P", "r", "e", "s", "s">>)>>),
   publish_place |-> Missing,
   first_publish_year |-> IntVal(2004)]

SparseCandidate ==
  [author_name |-> List(<<>>),
   title |-> Missing,
   publisher |-> List(<<Str(<<"A", "c", "m", "e">>)>>),
   publish_place |-> Missing,
   first_publish_year |-> Missing]

Responses ==
  {[kind |-> k] : k \in LookupFailures}
    \cup {[kind |-> "ok", doc |-> d] : d \in {FullCandidate, SparseCandidate}}

PackOutcomes == {"ok", "open_fails", "write_fails"}

StartProc ==
  /\ input_docx \in InputFiles
  /\ citation_style \in Styles
  /\ pc = "unpack"
  /\ temp_dir = NotRun
  /\ endnotes = <<>>
  /\ idx = 1
  /\ formatted_endnotes = <<>>
  /\ processing_log = <<>>
  /\ lookups = <<>>
  /\ result = NotRun
  /\ output_file = AbsentFile

IdleProc ==
  /\ input_docx = NotRun
  /\ citation_style = "chicago"
  /\ pc = "idle"
  /\ temp_dir = NotRun
  /\ endnotes = <<>>
  /\ idx = 1
  /\ formatted_endnotes = <<>>
  /\ processing_log = <<>>
  /\ lookups = <<>>
  /\ result = NotRun
  /\ output_file = AbsentFile

\* lines 391-397, and line 347: the failure result, after the finally
\* clause has removed temp_dir
Fail(error) ==
  /\ result' = [success |-> FALSE, error |-> error]
  /\ temp_dir' = Removed
  /\ pc' = "done"

\* lines 338-342
Unpack ==
  /\ pc = "unpack"
  /\ IF input_docx.kind = "not_a_zip"
     THEN Fail("BadZipFile")
     ELSE /\ temp_dir' = [endnotes_xml |-> input_docx.endnotes_xml]
          /\ pc' = "extract"
          /\ UNCHANGED result
  /\ UNCHANGED <<input_docx, citation_style, endnotes, idx, formatted_endnotes,
                 processing_log, lookups, output_file, notProc>>

\* lines 345-354
Extract ==
  /\ pc = "extract"
  /\ CASE temp_dir.endnotes_xml = AbsentFile ->
            Fail("No endnotes found in document") /\ UNCHANGED endnotes
       [] temp_dir.endnotes_xml = MalformedFile ->
            Fail("ExpatError") /\ UNCHANGED endnotes
       [] OTHER ->
            /\ endnotes' = extract_endnotes(temp_dir.endnotes_xml.notes)
            /\ pc' = "loop"
            /\ UNCHANGED <<temp_dir, result>>
  /\ UNCHANGED <<input_docx, citation_style, idx, formatted_endnotes,
                 processing_log, lookups, output_file, notProc>>

\* s[:100]
Preview(s) == SubSeq(s, 1, IF Len(s) < PreviewLen THEN Len(s) ELSE PreviewLen)

\* How the lookup of a note ended: not made ("skipped"), no result
\* ("failed"), or a candidate ("found").
LookupOutcome(p, response) ==
  IF ~(Truthy(p.author) \/ Truthy(p.title)) THEN "skipped"
  ELSE IF response.kind \in LookupFailures THEN "failed"
  ELSE "found"

\* lines 356-377: one turn of the loop, with the answer to its lookup.  An
\* exception raised in the body leaves the loop for line 391.
ProcessNote ==
  /\ pc = "loop"
  /\ idx <= Len(endnotes)
  /\ \E response \in Responses, p \in {parse_endnote_text(endnotes[idx][2])} :
     \E enriched \in {enrich(p, response)} :
     \E formatted \in {IF IsRaise(enriched) THEN enriched
                        ELSE format_citation(enriched, citation_style)} :
       LET note_id == endnotes[idx][1]
           note_text == endnotes[idx][2]
       IN  IF IsRaise(formatted)
           THEN /\ Fail(formatted.exc)
                /\ UNCHANGED <<idx, formatted_endnotes, processing_log, lookups>>
           ELSE /\ formatted_endnotes' = DictPut(formatted_endnotes, note_id, formatted.s)
                /\ processing_log' =
                     Append(processing_log,
                            [id |-> note_id, original |-> Preview(note_text),
                             formatted |-> Preview(formatted.s)])
                /\ lookups' = Append(lookups, <<note_id, LookupOutcome(p, response)>>)
                /\ idx' = idx + 1
                /\ UNCHANGED <<pc, temp_dir, result>>
  /\ UNCHANGED <<input_docx, citation_style, endnotes, output_file, notProc>>

\* line 380
WriteBack ==
  /\ pc = "loop"
  /\ idx > Len(endnotes)
  /\ LET new == update_endnotes_xml(temp_dir.endnotes_xml.notes, formatted_endnotes)
     IN  IF IsRaise(new)
         THEN Fail(new.exc)
         ELSE /\ temp_dir' = [endnotes_xml |-> new]
              /\ pc' = "pack"
              /\ UNCHANGED result
  /\ UNCHANGED <<input_docx, citation_style, endnotes, idx, formatted_endnotes,
                 processing_log, lookups, output_file, notProc>>

\* lines 383-397.  zipfile.ZipFile(output_path, 'w') creates the file; an
\* error of a later zipf.write leaves it there, closed by the with block.
Pack ==
  /\ pc = "pack"
  /\ \E outcome \in PackOutcomes :
       CASE outcome = "ok" ->
              /\ output_file' = [kind |-> "docx", endnotes_xml |-> temp_dir.endnotes_xml]
              /\ result' = [success |-> TRUE,
                            endnotes_processed |-> Len(formatted_endnotes),
                            log |-> processing_log]
              /\ temp_dir' = Removed
              /\ pc' = "done"
         [] outcome = "open_fails" ->
              Fail("OSError") /\ UNCHANGED output_file
         [] outcome = "write_fails" ->
              Fail("OSError") /\ output_file' = [kind |-> "partial"]
  /\ UNCHANGED <<input_docx, citation_style, endnotes, idx, formatted_endnotes,
                 processing_log, lookups, notProc>>

(***************************************************************************)
(* The /process route, src/app.py lines 405-450, serving two requests at   *)
(* once (app.run serves each request on a thread of its own).  The steps   *)
(* of a request are its accesses to UPLOAD_FOLDER, which the requests      *)
(* share; temp_dir is a fresh directory of the call (tempfile.mkdtemp).    *)
(* The content of a file is the upload it holds or Formatted(content,      *)
(* style), what process_document packs from that content.                  *)
(***************************************************************************)
Requests == {1, 2}
NoFile == [kind |-> "nofile"]
Uploaded(name) == [kind |-> "upload", doc |-> name]
Formatted(content, st) == [kind |-> "formatted", of |-> content, style |-> st]

UploadFilenames == {"a.docx", "b.docx", "a_formatted.docx", "notes.txt"}
UploadContents == {Uploaded("notes of A"), Uploaded("notes of B"), Uploaded("no endnotes")}
Paths == {"a.docx", "b.docx", "a_formatted.docx", "b_formatted.docx",
          "a_formatted_formatted.docx"}

\* lines 25-26
allowed_file(filename) == filename # "notes.txt"

\* lines 424-425: secure_filename leaves these names as they are
input_path(filename) == filename

\* lines 429-431: "<stem>_formatted.docx"
output_path(filename) ==
  CASE filename = "a.docx" -> "a_formatted.docx"
    [] filename = "b.docx" -> "b_formatted.docx"
    [] filename = "a_formatted.docx" -> "a_formatted_formatted.docx"

\* line 346: whether word/endnotes.xml is in the archive
has_endnotes(content) == content # Uploaded("no endnotes")

Response(status, body) == [status |-> status, body |-> body]

StartRoute ==
  /\ files = [path \in Paths |-> NoFile]
  /\ uploads \in [Requests -> [filename : UploadFilenames, file : UploadContents,
                              style : {"chicago", "mla"}]]
  /\ rpc = [r \in Requests |-> "start"]
  /\ unpacked = [r \in Requests |-> NoFile]
  /\ doc_result = [r \in Requests |-> NotRun]
  /\ responses = [r \in Requests |-> NotRun]

IdleRoute ==
  /\ files = <<>>
  /\ uploads = <<>>
  /\ rpc = <<>>
  /\ unpacked = <<>>
  /\ doc_result = <<>>
  /\ responses = <<>>

\* lines 408-417
Receive(r) ==
  /\ rpc[r] = "start"
  /\ IF allowed_file(uploads[r].filename)
     THEN rpc' = [rpc EXCEPT ![r] = "save"] /\ UNCHANGED responses
     ELSE /\ responses' = [responses EXCEPT
                             ![r] = Response(400, "Only .docx files are supported")]
          /\ rpc' = [rpc EXCEPT ![r] = "done"]
  /\ UNCHANGED <<files, uploads, unpacked, doc_result, notRoute>>

\* line 426
Save(r) ==
  /\ rpc[r] = "save"
  /\ files' = [files EXCEPT ![input_path(uploads[r].filename)] = uploads[r].file]
  /\ rpc' = [rpc EXCEPT ![r] = "unpack"]
  /\ UNCHANGED <<uploads, unpacked, doc_result, responses, notRoute>>

\* process_document to line 347: the archive at input_path read into temp_dir
UnpackUpload(r) ==
  /\ rpc[r] = "unpack"
  /\ LET content == files[input_path(uploads[r].filename)]
     IN  CASE content = NoFile ->
                /\ doc_result' = [doc_result EXCEPT
                     ![r] = [success |-> FALSE, error |-> "FileNotFoundError"]]
                /\ rpc' = [rpc EXCEPT ![r] = "respond"]
                /\ UNCHANGED unpacked
           [] content # NoFile /\ ~has_endnotes(content) ->
                /\ doc_result' = [doc_result EXCEPT
                     ![r] = [success |-> FALSE, error |-> "No endnotes found in document"]]
                /\ rpc' = [rpc EXCEPT ![r] = "respond"]
                /\ UNCHANGED unpacked
           [] OTHER ->
                /\ unpacked' = [unpacked EXCEPT ![r] = content]
                /\ rpc' = [rpc EXCEPT ![r] = "pack"]
                /\ UNCHANGED doc_result
  /\ UNCHANGED <<files, uploads, responses, notRoute>>

\* process_document from line 349: temp_dir processed and packed to output_path
PackOutput(r) ==
  /\ rpc[r] = "pack"
  /\ files' = [files EXCEPT ![output_path(uploads[r].filename)] =
                              Formatted(unpacked[r], uploads[r].style)]
  /\ doc_result' = [doc_result EXCEPT ![r] = [success |-> TRUE]]
  /\ rpc' = [rpc EXCEPT ![r] = "respond"]
  /\ UNCHANGED <<uploads, unpacked, responses, notRoute>>

\* lines 437-445: send_file reads the file now at output_path
Respond(r) ==
  /\ rpc[r] = "respond"
  /\ responses' = [responses EXCEPT ![r] =
       IF doc_result[r].success
       THEN Response(200, files[output_path(uploads[r].filename)])
       ELSE Response(500, doc_result[r].error)]
  /\ rpc' = [rpc EXCEPT ![r] = "exists"]
  /\ UNCHANGED <<files, uploads, unpacked, doc_result, notRoute>>

\* line 449
CheckExists(r) ==
  /\ rpc[r] = "exists"
  /\ rpc' = [rpc EXCEPT ![r] =
       IF files[input_path(uploads[r].filename)] # NoFile THEN "remove" ELSE "done"]
  /\ UNCHANGED <<files, uploads, unpacked, doc_result, responses, notRoute>>

\* line 450: os.remove raises when the file has gone since line 449, and the
\* exception of the finally clause replaces the response
Remove(r) ==
  /\ rpc[r] = "remove"
  /\ IF files[input_path(uploads[r].filename)] # NoFile
     THEN /\ files' = [files EXCEPT ![input_path(uploads[r].filename)] = NoFile]
          /\ UNCHANGED responses
     ELSE /\ responses' = [responses EXCEPT ![r] = Response(500, "FileNotFoundError")]
          /\ UNCHANGED files
  /\ rpc' = [rpc EXCEPT ![r] = "done"]
  /\ UNCHANGED <<uploads, unpacked, doc_result, notRoute>>

(***************************************************************************)
(* The specifications.                                                     *)
(***************************************************************************)
InitParse == StartParse /\ IdleRender /\ IdleMerge /\ IdleDoc /\ IdleProc /\ IdleRoute
NextParse == Parse
SpecParse == InitParse /\ [][NextParse]_vars

InitRender == StartRender /\ IdleParse /\ IdleMerge /\ IdleDoc /\ IdleProc /\ IdleRoute
NextRender == Render
SpecRender == InitRender /\ [][NextRender]_vars

InitMerge == StartMerge /\ IdleParse /\ IdleRender /\ IdleDoc /\ IdleProc /\ IdleRoute
NextMerge == Merge
SpecMerge == InitMerge /\ [][NextMerge]_vars

InitDoc == StartDoc /\ IdleParse /\ IdleRender /\ IdleMerge /\ IdleProc /\ IdleRoute
NextDoc == ExtractBefore \/ Update \/ ExtractAfter
SpecDoc == InitDoc /\ [][NextDoc]_vars

Init == StartProc /\ IdleParse /\ IdleRender /\ IdleMerge /\ IdleDoc /\ IdleRoute
Next == Unpack \/ Extract \/ ProcessNote \/ WriteBack \/ Pack
Spec == Init /\ [][Next]_vars

InitRoute ==
  StartRoute /\ IdleParse /\ IdleRender /\ IdleMerge /\ IdleDoc /\ IdleProc
NextRoute ==
  \E r \in Requests :
    \/ Receive(r)
    \/ Save(r)
    \/ UnpackUpload(r)
    \/ PackOutput(r)
    \/ Respond(r)
    \/ CheckExists(r)
    \/ Remove(r)
SpecRoute == InitRoute /\ [][NextRoute]_vars

(***************************************************************************)
(* C8.  For every raw text, the raw-text field of the parser's result      *)
(* ('original_text') is the input text unchanged, leading numeric label    *)
(* and surrounding whitespace included.                                    *)
(***************************************************************************)
C8_OriginalTextUnchanged ==
  parsed # NotRun => parsed.original_text = text

(***************************************************************************)
(* C10 as stated.  "1. Smith, John, A Study of Things, Acme Press, 1999,   *)
(* 42." parses to author "Smith", title "John", year "1999", page "42".    *)
(***************************************************************************)
C10_SmithScenarioAsStated ==
  (parsed # NotRun /\ text = SmithScenario) =>
    /\ parsed.author = Str(<<"S", "m", "i", "t", "h">>)
    /\ parsed.title = Str(<<"J", "o", "h", "n">>)
    /\ parsed.year = Str(<<"1", "9", "9", "9">>)
    /\ parsed.page = Str(<<"4", "2">>)

(***************************************************************************)
(* C10 amended.  The scenario text parses to no author (the label pattern  *)
(* removes "1" and leaves ". Smith" as segment 0, which starts with "."),  *)
(* title "John", year "1999" and page "42".  In general, with the working  *)
(* copy split on commas into two segments or more, segment 0 trimmed is    *)
(* the author exactly when its first character is upper-case, and segment  *)
(* 1, trimmed and stripped of quote marks, is the title exactly when it    *)
(* is not empty; with fewer segments there is neither.                     *)
(***************************************************************************)
C10_SegmentsBecomeAuthorAndTitle ==
  parsed # NotRun =>
    LET segments == split(parsed.original_text, ",")
        seg0 == strip(segments[1])
        seg1 == strip_quotes(strip(segments[2]))
    IN  /\ text = SmithScenario =>
             /\ parsed.author = None
             /\ parsed.title = Str(<<"J", "o", "h", "n">>)
             /\ parsed.year = Str(<<"1", "9", "9", "9">>)
             /\ parsed.page = Str(<<"4", "2">>)
        /\ Len(segments) < 2 => parsed.author = None /\ parsed.title = None
        /\ Len(segments) >= 2 =>
             /\ parsed.author = (IF seg0 # <<>> /\ IsUpper(seg0[1]) THEN Str(seg0) ELSE None)
             /\ parsed.title = (IF seg1 # <<>> THEN Str(seg1) ELSE None)

C10_SmithScenarioParsed ==
  /\ parsed # NotRun
  /\ text = SmithScenario
  /\ parsed.title = Str(<<"J", "o", "h", "n">>)

(***************************************************************************)
(* C9.  In format_chicago (also the fallback of an unknown style), for     *)
(* every combination of present and absent fields: ", " between author and *)
(* title only when both are present; ": " only when place and publisher    *)
(* are both present; the parenthetical group only when one of place,       *)
(* publisher, year is present; ", " inside the parentheses only when       *)
(* publisher and year are both present; ", " before the page only when a   *)
(* page is present; and no empty segment.  (No field value of              *)
(* StartRender contains punctuation.)                                      *)
(***************************************************************************)
C9_ChicagoSeparators ==
  (rendered # NotRun /\ style \notin {"mla", "apa", "bluebook"}) =>
    LET r == rendered.s
        present(f) == Truthy(fields[f])
        rest == After(r, EmClose)
        group == IF Occurs(rest, <<"(">>) THEN Before(After(rest, <<"(">>), <<")">>) ELSE <<>>
        tail == IF Occurs(rest, <<")">>) THEN After(rest, <<")">>) ELSE rest
    IN  /\ Occurs(r, <<",", " ">> \o EmOpen) => present("author") /\ present("title")
        /\ Occurs(r, <<":", " ">>) => present("place") /\ present("publisher")
        /\ Occurs(r, <<"(">>) => present("place") \/ present("publisher") \/ present("year")
        /\ Occurs(group, <<",", " ">>) => present("publisher") /\ present("year")
        /\ Occurs(tail, <<",", " ">>) => present("page")
        /\ ~Occurs(r, EmOpen \o EmClose)

(***************************************************************************)
(* C2.  Merge policy: for every pair of parsed fields and lookup result    *)
(* and every field, a populated parsed field is never replaced, and an     *)
(* empty parsed field is replaced exactly when the lookup result has a     *)
(* non-empty value for it: after the merge a field is the parsed value if  *)
(* present, else the lookup value if non-empty, else still empty.          *)
(***************************************************************************)
FieldNames == {"author", "title", "publisher", "place", "year", "page"}

C2_MergePolicy ==
  merged # NotRun =>
    \A key \in FieldNames :
      LET enriched == IF mlookup # None /\ key \in DOMAIN mlookup
                      THEN mlookup[key] ELSE None
      IN  merged[key] = (IF Truthy(mparsed[key]) THEN mparsed[key]
                         ELSE IF Truthy(enriched) THEN enriched
                         ELSE mparsed[key])

\* A merge that kept a parsed author against a different looked-up one and
\* filled an absent publisher.
C2_MergeKeptAndFilled ==
  /\ merged # NotRun
  /\ mlookup # None
  /\ Truthy(mparsed.author) /\ Truthy(mlookup.author)
  /\ merged.author = mparsed.author
  /\ ~Truthy(mparsed.publisher) /\ Truthy(mlookup.publisher)
  /\ merged.publisher = mlookup.publisher
  /\ merged.original_text = mparsed.original_text

(***************************************************************************)
(* C1.  update_endnotes_xml and then extract_endnotes returns, for every   *)
(* note id of the document that the mapping holds, the formatted text      *)
(* supplied (its <em> markers removed, as the writer removes them), and    *)
(* for every other note id the text the first extraction returned; for     *)
(* every note shape, a note with no w:t, a note whose first w:t is empty   *)
(* and a note with several w:t included.                                   *)
(***************************************************************************)
C1_WriteBackThenExtract ==
  dpc = "done" =>
    /\ DictKeys(after) = DictKeys(before)
    /\ \A id \in DictKeys(before) :
         DictGet(after, id) =
           (IF id \in DictKeys(formatted_arg)
            THEN strip_em(DictGet(formatted_arg, id))
            ELSE DictGet(before, id))

(***************************************************************************)
(* C3.  A lookup that fails (timeout, transport error, response not OK,    *)
(* malformed response, no candidate) never aborts the document: no         *)
(* failure result carries a lookup's error; every note whose lookup failed *)
(* is in the write-back mapping, rendered from exactly its parsed fields;  *)
(* and a run that succeeds over N extracted notes reports                  *)
(* endnotes_processed = N, with every note in the mapping and in the log.  *)
(***************************************************************************)
C3_LookupFailureNeverAborts ==
  /\ (result # NotRun /\ ~result.success) =>
       result.error \notin {"timeout", "connection_error", "malformed"}
  /\ \A i \in 1..Len(lookups) :
       lookups[i][2] = "failed" =>
         /\ lookups[i][1] \in DictKeys(formatted_endnotes)
         /\ Str(DictGet(formatted_endnotes, lookups[i][1])) =
              format_citation(parse_endnote_text(DictGet(endnotes, lookups[i][1])),
                              citation_style)
  /\ (result # NotRun /\ result.success) =>
       /\ result.endnotes_processed = Len(endnotes)
       /\ DictKeys(formatted_endnotes) = DictKeys(endnotes)
       /\ Len(result.log) = Len(endnotes)
       /\ \A i \in 1..Len(endnotes) : result.log[i].id = endnotes[i][1]

\* A run over three notes that succeeded although exactly one lookup failed.
C3_OneOfThreeFailed ==
  /\ result # NotRun
  /\ result.success
  /\ result.endnotes_processed = 3
  /\ Cardinality({i \in 1..Len(lookups) : lookups[i][2] = "failed"}) = 1
  /\ Cardinality({i \in 1..Len(lookups) : lookups[i][2] = "found"}) = 2

(***************************************************************************)
(* C4.  Whenever process_document returns a failure, no output file has    *)
(* been produced at output_path by that call, whatever the cause: a        *)
(* missing word/endnotes.xml (reported as 'No endnotes found in            *)
(* document'), an unpack, extraction or write-back error, or an error      *)
(* raised during pack_docx.                                                *)
(***************************************************************************)
C4_FailureLeavesNoOutput ==
  (result # NotRun /\ ~result.success) =>
    /\ output_file = AbsentFile
    /\ (input_docx.kind = "docx" /\ input_docx.endnotes_xml = AbsentFile) =>
         result.error = "No endnotes found in document"

(***************************************************************************)
(* C5.  Reserved note ids ("-1" and "0") are skipped entirely: no reserved *)
(* id is ever a key of what extract_endnotes returned or of the write-back *)
(* mapping, and the text runs of every endnote with a reserved id are, in  *)
(* the working file at every step and in the output file, those of the     *)
(* input document.                                                         *)
(***************************************************************************)
ReservedNotes(doc) == SelectSeq(doc, LAMBDA e : e.id \in ReservedIds)

C5_ReservedIdsSkipped ==
  /\ DictKeys(endnotes) \cap ReservedIds = {}
  /\ DictKeys(formatted_endnotes) \cap ReservedIds = {}
  /\ (temp_dir \notin {NotRun, Removed} /\ temp_dir.endnotes_xml.kind = "xml") =>
       ReservedNotes(temp_dir.endnotes_xml.notes)
         = ReservedNotes(input_docx.endnotes_xml.notes)
  /\ output_file.kind = "docx" =>
       ReservedNotes(output_file.endnotes_xml.notes)
         = ReservedNotes(input_docx.endnotes_xml.notes)

\* A run that rewrote a note of a document that also holds a reserved note
\* with text.
C5_RewroteBesideReserved ==
  /\ output_file.kind = "docx"
  /\ output_file.endnotes_xml.notes # input_docx.endnotes_xml.notes
  /\ \E i \in 1..Len(input_docx.endnotes_xml.notes) :
       /\ input_docx.endnotes_xml.notes[i].id \in ReservedIds
       /\ input_docx.endnotes_xml.notes[i].runs # <<>>

(***************************************************************************)
(* C6.  For every document that has word/endnotes.xml and N addressable    *)
(* notes (the distinct note ids, reserved ids excluded), every successful  *)
(* run returns endnotes_processed = N.                                     *)
(***************************************************************************)
AddressableIds(doc) == {doc[i].id : i \in 1..Len(doc)} \ (ReservedIds \cup {""})

C6_ProcessedCountIsN ==
  (result # NotRun /\ result.success) =>
    result.endnotes_processed = Cardinality(AddressableIds(input_docx.endnotes_xml.notes))

\* A successful run on a document where two elements share one note id.
C6_CountedSharedIdOnce ==
  /\ result # NotRun
  /\ result.success
  /\ result.endnotes_processed = 1
  /\ Len(input_docx.endnotes_xml.notes) = 2
  /\ input_docx.endnotes_xml.notes[1].id = input_docx.endnotes_xml.notes[2].id

(***************************************************************************)
(* C7.  Concurrent requests share no mutable state: under every            *)
(* interleaving of two requests to /process, two uploads with the same     *)
(* filename included, the response of each request is the one it would     *)
(* get if it ran alone on its own uploaded file and style, and the file a  *)
(* request saved is neither overwritten nor deleted by the other before    *)
(* the request has read it.                                                *)
(***************************************************************************)
\* The response of a request that runs alone.
AloneResponse(form) ==
  IF ~allowed_file(form.filename)
  THEN Response(400, "Only .docx files are supported")
  ELSE IF ~has_endnotes(form.file)
  THEN Response(500, "No endnotes found in document")
  ELSE Response(200, Formatted(form.file, form.style))

C7_RequestsIndependent ==
  \A r \in Requests :
    /\ rpc[r] = "done" => responses[r] = AloneResponse(uploads[r])
    /\ rpc[r] = "unpack" => files[input_path(uploads[r].filename)] = uploads[r].file

=============================================================================
